---------------------------- MODULE Spec2Model ----------------------------
(***************************************************************************)
(* Touch-gesture anomaly scorer: the persistent scoring service            *)
(* (ml/touch/serve_sklearn.py), the threshold normalisation and the batch  *)
(* inference driver (ml/touch/infer_autoencoder.py), the gesture label     *)
(* codec (ml/touch/gesture_map.py) and the training pipeline               *)
(* (ml/touch/train_autoencoder_tf.py).                                     *)
(*                                                                         *)
(* Python floats are modelled as exact rationals <<n, d>> in lowest terms  *)
(* with d > 0 (so equal numbers are equal tuples); the IEEE specials that  *)
(* numpy produces on a division by zero are NaN = <<0, 0>>,                *)
(* Inf = <<1, 0>> and NegInf = <<-1, 0>>.                                  *)
(***************************************************************************)
EXTENDS Integers, Sequences, FiniteSets, TLC

VARIABLES
    \* persistent scoring service (serve_sklearn.main)
    input,      \* the lines of stdin, fixed when the process starts
    pos,        \* how many lines the loop has consumed
    output,     \* the lines written to stdout and flushed, in order
    spc,        \* "loop" while iterating over stdin, "done" after the loop
    \* threshold normalisation applied to one pair of errors
    nin,        \* [a, b, thr]: two reconstruction errors and a threshold
    nout,       \* the scores both normalisers give for them, once computed
    \* batch inference driver (infer_autoencoder.main)
    csv,        \* the rows of the input CSV file
    bundle,     \* the artifacts on disk: backend, scaler, model, threshold
    bpc,        \* where the run is: "start", ..., "done" or "failed"
    berr,       \* the exception that ended a failed run
    X,          \* the feature matrix load_csv returned
    src,        \* for each row of X, the CSV row it came from (history)
    Xs,         \* the standardized matrix
    ci,         \* the loop variable i of the TFLite batch loop
    mse_list,   \* the per-batch error arrays collected by that loop
    fed,        \* the CSV rows the model has been invoked on, in order (history)
    mse,        \* the per-row reconstruction errors
    thr,        \* the threshold load_threshold returned
    scores,     \* the normalized scores
    out_csv,    \* the rows written to --out
    \* gesture label codec (gesture_map.py)
    cmap,       \* the map document read and what load_map made of it
    cq,         \* the last call of to_numeric / from_numeric and its outcome
    \* standardizer: fit (training) and apply (inference) on one matrix
    sio,        \* the matrix, the scaler fitted or stored, the result
    \* training pipeline (train_autoencoder_tf.main)
    tin,        \* the command line: matched files, threshold_k, and the run number
    tpc,        \* where the run is: "start", ..., "done" or "failed"
    terr,       \* the exception that ended a failed run
    tloc,       \* main's locals: X, n, mean, std, Xs, model, mse, thr
    outdir,     \* the files of the output directory and the run that wrote each
    tlog        \* the steps the run has performed, in order (history)

serveVars == <<input, pos, output, spc>>
normVars  == <<nin, nout>>
batchVars == <<csv, bundle, bpc, berr, X, src, Xs, ci, mse_list, fed, mse, thr,
               scores, out_csv>>
codecVars == <<cmap, cq>>
scalerVars == <<sio>>
trainVars == <<tin, tpc, terr, tloc, outdir, tlog>>
vars      == <<input, pos, output, spc, nin, nout,
               csv, bundle, bpc, berr, X, src, Xs, ci, mse_list, fed, mse, thr,
               scores, out_csv, cmap, cq, sio, tin, tpc, terr, tloc, outdir, tlog>>

-----------------------------------------------------------------------------
(* Bounds of the model *)

MaxLines == 3      \* lines on stdin of the service
MaxKeys  == 2      \* members of a request object of the wide request set
MaxNum   == 4      \* numerators of the errors and thresholds normalised
MaxDen   == 3      \* denominators of the errors and thresholds normalised
MaxRows  == 3      \* rows of the CSV file of a batch run
MaxChunkRows == 258  \* rows of the CSV file of a long TFLite run
SqrtGrid == 8      \* a rounded square root is a multiple of 1 / SqrtGrid
MaxLabels == 2     \* members of a gesture map document
MaxFiles == 2      \* CSV files matched by the patterns of a training run

-----------------------------------------------------------------------------
(* Exact rational arithmetic standing for float arithmetic *)

\* The arithmetic is written as functions of its operands: applying a
\* function takes the operands' values.
Abs(n) == IF n < 0 THEN -n ELSE n

\* Euclid's algorithm.
gcd[a \in Nat, b \in Nat] == IF b = 0 THEN a ELSE gcd[b, a % b]

GCD(a, b) == gcd[a, b]

\* n / d in lowest terms with a positive denominator (d # 0).
rat[n \in Int, d \in Int] ==
    LET s == IF d < 0 THEN -1 ELSE 1
        g == gcd[Abs(n), Abs(d)]
    IN  <<(s * n) \div g, (s * d) \div g>>

Rat(n, d) == rat[n, d]

Zero == <<0, 1>>
One  == <<1, 1>>

NaN    == <<0, 0>>
Inf    == <<1, 0>>
NegInf == <<-1, 0>>
IsRat(x) == x[2] # 0

radd[a \in Int \X Int, b \in Int \X Int] ==
    LET g == gcd[a[2], b[2]]
    IN  rat[a[1] * (b[2] \div g) + b[1] * (a[2] \div g), (a[2] \div g) * b[2]]

rmul[a \in Int \X Int, b \in Int \X Int] == rat[a[1] * b[1], a[2] * b[2]]

RatAdd(a, b) == radd[a, b]
RatNeg(a)    == <<-a[1], a[2]>>
RatSub(a, b) == radd[a, RatNeg(b)]
RatMul(a, b) == rmul[a, b]
RatDiv(a, b) == rmul[a, <<b[2], b[1]>>]            \* b # 0
RatLeq(a, b) == a[1] * b[2] <= b[1] * a[2]
RatLt(a, b)  == a[1] * b[2] < b[1] * a[2]

RECURSIVE RatSum(_)
RatSum(s) == IF s = <<>> THEN Zero ELSE RatAdd(Head(s), RatSum(Tail(s)))

-----------------------------------------------------------------------------
(* serve_sklearn.py: the request language *)

\* The keys of SCALES in the order the dict literal lists them, which is the
\* order SCALES.items() yields them.
ScaleKeys ==
    << "duration_ms", "total_distance", "avg_velocity", "peak_velocity",
       "avg_pressure", "peak_pressure", "path_deviation",
       "direction_changes", "jitter" >>

SCALES ==
    [ duration_ms       |-> Rat(500, 1),
      total_distance    |-> Rat(300, 1),
      avg_velocity      |-> Rat(1, 1),
      peak_velocity     |-> Rat(5, 1),
      avg_pressure      |-> Rat(1, 1),
      peak_pressure     |-> Rat(1, 1),
      path_deviation    |-> Rat(5, 1),
      direction_changes |-> Rat(5, 1),
      jitter            |-> Rat(3, 1) ]

\* What json.loads makes of a member's value.  t is the Python type of the
\* value: JSON numbers load as int or float, true/false as bool, a string as
\* str, null as None.  n is its numeric value (True is 1, False is 0).
JInt(n)   == [t |-> "int",   n |-> n]
JFloat(n) == [t |-> "float", n |-> n]
JTrue     == [t |-> "bool",  n |-> 1]
JFalse    == [t |-> "bool",  n |-> 0]
JStr      == [t |-> "str",   n |-> 0]
JNull     == [t |-> "NoneType", n |-> 0]

\* dict.get(k): the value, or None for a missing key.
Get(features, k) == IF k \in DOMAIN features THEN features[k] ELSE JNull

\* isinstance(v, (int, float)).  bool is a subclass of int in Python, so a
\* JSON true or false passes this test.
IsIntOrFloat(v) == v.t \in {"int", "float", "bool"}

\* (float(v) / scale) ** 2.  It raises OverflowError only when the square
\* leaves the float range (|v / scale| above about 1.3e154); the values
\* drawn in this model stay far below, so the except branch of compute_mse
\* is not taken here.
SquaredRatio(v, scale) ==
    LET q == RatDiv(Rat(v.n, 1), scale) IN RatMul(q, q)

\* The list `vals` after the loop over SCALES.items() has reached key i.
RECURSIVE ValsFrom(_, _)
ValsFrom(features, i) ==
    IF i > Len(ScaleKeys) THEN <<>>
    ELSE LET k == ScaleKeys[i]
             v == Get(features, k)
         IN  (IF IsIntOrFloat(v) THEN <<SquaredRatio(v, SCALES[k])>> ELSE <<>>)
             \o ValsFrom(features, i + 1)

compute_mse(features) ==
    LET vals == ValsFrom(features, 1)
    IN  IF vals = <<>> THEN Zero ELSE RatDiv(RatSum(vals), Rat(Len(vals), 1))

-----------------------------------------------------------------------------
(* Threshold normalisation *)

RatMin(a, b) == IF RatLt(b, a) THEN b ELSE a       \* Python min(a, b)
RatMax(a, b) == IF RatLt(a, b) THEN b ELSE a       \* Python max(a, b)

\* serve_sklearn.main: max(0.0, min(1.0, mse / threshold)), Python floats.
ServiceNormalize_NoUpperClamp(err, threshold) ==
    RatMax(Zero, RatDiv(err, threshold))

ServiceNormalize(err, threshold) ==
    RatMax(Zero, RatMin(One, RatDiv(err, threshold)))

\* The threshold the service uses for every line.
ServiceThreshold == One

\* numpy's float division: a division by zero gives nan (0 / 0) or a signed
\* infinity and goes on with a warning.
NpDivide(a, b) ==
    IF b[1] # 0 THEN RatDiv(a, b)
    ELSE IF a[1] = 0 THEN NaN
    ELSE IF a[1] > 0 THEN Inf ELSE NegInf

\* numpy.minimum(a, x) for a rational a: nan propagates.
NpMinimum(a, x) ==
    IF x = NaN THEN NaN
    ELSE IF x = Inf THEN a
    ELSE IF x = NegInf THEN NegInf
    ELSE IF RatLt(x, a) THEN x ELSE a

\* infer_autoencoder.main: np.minimum(1.0, mse / float(thr)), one element.
BatchNormalize(err, threshold) == NpMinimum(One, NpDivide(err, threshold))

-----------------------------------------------------------------------------
(* serve_sklearn.main: one line of stdin *)

\* A line of stdin is its text and the whitespace around it (the newline
\* that ends it, and any blanks); line.strip() leaves the text.
strip(line) == line.text

\* json.loads(text): the loaded value, or the JSONDecodeError it raises.
json_loads(text) ==
    IF text.form = "json"
    THEN [raised |-> FALSE, value |-> text.doc]
    ELSE [raised |-> TRUE, error |-> "Expecting property name enclosed in double quotes"]

ErrorRecord(msg) == [ok |-> FALSE, error |-> msg]

OkRecord(err) ==
    [ ok        |-> TRUE,
      mse       |-> err,
      threshold |-> ServiceThreshold,
      score     |-> ServiceNormalize(err, ServiceThreshold) ]

\* The body of the try block for one line: what the iteration does.
\*   "continue": the stripped line is empty, nothing is written;
\*   "write":    the ok record is written;
\*   "raise":    an exception reached the except clause, which writes the
\*               error record with str(e).
\* compute_mse calls features.get, which only a dict has: any other JSON
\* value (a list, a number, a string, null) raises AttributeError.
TryBody(line) ==
    LET text == strip(line) IN
    IF text.form = "empty" THEN [do |-> "continue"]
    ELSE LET p == json_loads(text) IN
         IF p.raised THEN [do |-> "raise", rec |-> ErrorRecord(p.error)]
         ELSE IF p.value.type # "dict"
              THEN [do |-> "raise",
                    rec |-> ErrorRecord("object has no attribute 'get'")]
              ELSE [do |-> "write",
                    rec |-> OkRecord(compute_mse(p.value.members))]

\* stdout after the iteration for `line`.
Written_DropsErrors(out, line) ==
    LET r == TryBody(line)
    IN  IF r.do = "write" THEN Append(out, r.rec) ELSE out

Written_Prepends(out, line) ==
    LET r == TryBody(line)
    IN  IF r.do = "continue" THEN out ELSE <<r.rec>> \o out

Written_RemembersError(out, line) ==
    LET r == TryBody(line)
    IN  IF r.do = "continue" THEN out
        ELSE IF out # <<>> /\ ~out[Len(out)].ok THEN Append(out, out[Len(out)])
        ELSE Append(out, r.rec)

Written(out, line) ==
    LET r == TryBody(line)
    IN  IF r.do = "continue" THEN out ELSE Append(out, r.rec)

\* `for line in sys.stdin` ends when stdin is exhausted.
AtEndOfInput == pos = Len(input)

\* One iteration of `for line in sys.stdin`: the next line is read, handled
\* and (unless blank) answered and flushed.
ProcessLine ==
    /\ spc = "loop"
    /\ ~AtEndOfInput
    /\ pos' = pos + 1
    /\ output' = Written(output, input[pos + 1])
    /\ UNCHANGED <<input, spc, normVars, batchVars, codecVars, scalerVars, trainVars>>

EndOfInput_AnyTime ==
    /\ spc = "loop"
    /\ spc' = "done"
    /\ UNCHANGED <<input, pos, output, normVars, batchVars, codecVars, scalerVars, trainVars>>

\* stdin is exhausted: the for loop ends and main returns.
EndOfInput ==
    /\ spc = "loop"
    /\ AtEndOfInput
    /\ spc' = "done"
    /\ UNCHANGED <<input, pos, output, normVars, batchVars, codecVars, scalerVars, trainVars>>

ServeNext == ProcessLine \/ EndOfInput

-----------------------------------------------------------------------------
(* The requests drawn *)

Text(form)   == [form |-> form]
JsonText(d)  == [form |-> "json", doc |-> d]
Dict(m)      == [type |-> "dict", members |-> m]
NonDict(t)   == [type |-> t]
Line(text, ws) == [text |-> text, ws |-> ws]

EmptyDict == Dict([k \in {} |-> JNull])

\* The lines of the service runs: blank and whitespace-only lines, a line
\* that is no JSON, a JSON array, and a few request objects.
ServeLines ==
    { Line(Text("empty"), "\n"),
      Line(Text("empty"), "  \n"),
      Line(Text("garbage"), "\n"),
      Line(JsonText(NonDict("list")), "\n"),
      Line(JsonText(EmptyDict), "\n"),
      Line(JsonText(Dict([jitter |-> JInt(3)])), "\n"),
      Line(JsonText(Dict([peak_velocity |-> JFloat(2), avg_pressure |-> JStr])), " \n") }

\* The member values of the wide request set.
Values == {JInt(0), JInt(3), JFloat(-5), JTrue, JStr, JNull}

KeySet == {ScaleKeys[i] : i \in 1..Len(ScaleKeys)}

\* Every object with at most MaxKeys of the nine keys, each holding one of
\* Values, and the objects with one member under a key SCALES does not know.
WideObjects ==
    UNION { [ks -> Values] : ks \in {s \in SUBSET KeySet : Cardinality(s) <= MaxKeys} }
    \cup { [k \in {"unknown_key"} |-> v] : v \in Values }

WideLines == { Line(JsonText(Dict(m)), "\n") : m \in WideObjects }

RECURSIVE SeqsUpTo(_, _)
SeqsUpTo(S, n) ==
    IF n = 0 THEN {<<>>}
    ELSE LET shorter == SeqsUpTo(S, n - 1)
         IN  shorter \cup { Append(s, x) : s \in {t \in shorter : Len(t) = n - 1}, x \in S }

NoScores == [done |-> FALSE, batch_a |-> Zero, batch_b |-> Zero,
             service_a |-> Zero, service_b |-> Zero]

NormIdle == nin = [a |-> Zero, b |-> Zero, thr |-> One] /\ nout = NoScores

ServeIdle == input = <<>> /\ pos = 0 /\ output = <<>> /\ spc = "off"

NoError == [type |-> "none", what |-> "none"]

NoBundle ==
    [ backend   |-> "none",
      scaler    |-> [kind |-> "missing", mean |-> <<>>, scale |-> <<>>],
      model     |-> [in_shape |-> <<>>, out |-> 0, behaviour |-> "zero"],
      threshold |-> [present |-> FALSE, has_key |-> FALSE, value |-> Zero] ]

\* The batch driver before load_csv has run.
BatchFresh ==
    /\ berr = NoError
    /\ X = <<>> /\ src = <<>> /\ Xs = <<>>
    /\ ci = 0 /\ mse_list = <<>> /\ fed = <<>> /\ mse = <<>>
    /\ thr = Zero /\ scores = <<>> /\ out_csv = <<>>

BatchIdle == csv = <<>> /\ bundle = NoBundle /\ bpc = "off" /\ BatchFresh

\* The codec, the standardizer and the training pipeline not in use.
CodecIdle == cmap = [pc |-> "off"] /\ cq = [op |-> "none"]

ScalerIdle == sio = [pc |-> "off"]

TrainIdle ==
    /\ tin = [run |-> 0]
    /\ tpc = "off"
    /\ terr = NoError
    /\ tloc = [n |-> 0]
    /\ outdir = [exists |-> FALSE]
    /\ tlog = <<>>

OthersIdle == CodecIdle /\ ScalerIdle /\ TrainIdle

\* The service started on some stdin.
ServeInit ==
    /\ input \in SeqsUpTo(ServeLines, MaxLines)
    /\ pos = 0
    /\ output = <<>>
    /\ spc = "loop"
    /\ NormIdle
    /\ BatchIdle
    /\ OthersIdle

ServeSpec == ServeInit /\ [][ServeNext]_vars

\* The loop body and the end of the loop are the only steps of the process,
\* and the process keeps running while one of them is possible.
FairServeSpec == ServeSpec /\ WF_vars(ServeNext)

\* The service started on one request line of the wide set.
ScoreInit ==
    /\ input \in { <<l>> : l \in WideLines }
    /\ pos = 0
    /\ output = <<>>
    /\ spc = "loop"
    /\ NormIdle
    /\ BatchIdle
    /\ OthersIdle

ScoreSpec == ScoreInit /\ [][ServeNext]_vars

-----------------------------------------------------------------------------
(* The two normalisers applied to the same errors and threshold *)

\* Reconstruction errors (mse >= 0) and thresholds (> 0) up to the bounds.
Errors     == { Rat(n, d) : n \in 0..MaxNum, d \in 1..MaxDen }
Thresholds == { Rat(n, d) : n \in 1..MaxNum, d \in 1..MaxDen }

NormInit ==
    /\ nin \in [a : Errors, b : Errors, thr : Thresholds]
    /\ nout = NoScores
    /\ ServeIdle
    /\ BatchIdle
    /\ OthersIdle

\* Line 194 of infer_autoencoder.py and line 49 of serve_sklearn.py, each
\* applied to both errors.
Normalize ==
    /\ ~nout.done
    /\ nout' = [ done      |-> TRUE,
                 batch_a   |-> BatchNormalize(nin.a, nin.thr),
                 batch_b   |-> BatchNormalize(nin.b, nin.thr),
                 service_a |-> ServiceNormalize(nin.a, nin.thr),
                 service_b |-> ServiceNormalize(nin.b, nin.thr) ]
    /\ UNCHANGED <<nin, serveVars, batchVars, codecVars, scalerVars, trainVars>>

NormNext == Normalize

NormSpec == NormInit /\ [][NormNext]_vars

-----------------------------------------------------------------------------
(* infer_autoencoder.py: loading the CSV file *)

\* gesture_map.DEFAULT_MAP, as get_default_map() copies it.
DEFAULT_MAP == [TAP |-> Zero, SWIPE |-> One]

get_default_map == DEFAULT_MAP

\* The columns of the feature matrix, in order.
feats ==
    << "gesture_num", "duration_ms", "total_distance", "avg_velocity",
       "peak_velocity", "avg_pressure", "peak_pressure", "path_deviation",
       "direction_changes", "jitter" >>

\* A CSV row: its first field, its nine measurement cells, and whether
\* every measurement cell holds a number.
Row(label, cells, numeric) == [label |-> label, cells |-> cells, numeric |-> numeric]

\* df[0].astype(str).isin(gesture_map.keys())
IsRecognized(row) == row.label \in DOMAIN get_default_map

\* The positions lo..hi of the file whose rows the filter keeps, in file
\* order.
RECURSIVE KeptIn(_, _, _)
KeptIn(rows, lo, hi) ==
    IF lo > hi THEN <<>>
    ELSE IF lo = hi THEN (IF IsRecognized(rows[lo]) THEN <<lo>> ELSE <<>>)
    ELSE LET mid == (lo + hi) \div 2
         IN  KeptIn(rows, lo, mid) \o KeptIn(rows, mid + 1, hi)

Kept_Reversed(rows) ==
    LET k == KeptIn(rows, 1, Len(rows)) IN [j \in 1..Len(k) |-> k[Len(k) + 1 - j]]

\* df = df[df[0].astype(str).isin(gesture_map.keys())]
Kept(rows) == KeptIn(rows, 1, Len(rows))

\* One row of X: gesture_num, then the nine measurements, as floats.
FeatureVector(row) ==
    <<get_default_map[row.label]>> \o [k \in 1..Len(row.cells) |-> Rat(row.cells[k], 1)]

\* load_csv: the filtered rows as a float matrix, or the error raised:
\* by read_csv on a file without rows, by the emptiness test when no row is
\* left, by astype(float) when a cell is no number.
load_csv(rows) ==
    LET kept == Kept(rows) IN
    IF rows = <<>>
    THEN [raised |-> TRUE, error |-> [type |-> "EmptyDataError", what |-> "No columns to parse from file"]]
    ELSE IF kept = <<>>
    THEN [raised |-> TRUE, error |-> [type |-> "ValueError", what |-> "No valid rows found"]]
    ELSE IF \E j \in 1..Len(kept) : ~rows[kept[j]].numeric
    THEN [raised |-> TRUE, error |-> [type |-> "ValueError", what |-> "could not convert string to float"]]
    ELSE [raised |-> FALSE,
          X   |-> [j \in 1..Len(kept) |-> FeatureVector(rows[kept[j]])],
          src |-> kept]

-----------------------------------------------------------------------------
(* infer_autoencoder.py: threshold, scaler, model *)

\* load_threshold: open() raises when the file is missing, a missing (or
\* null) "threshold" key raises ValueError, any number is returned as it is.
load_threshold(file) ==
    IF ~file.present
    THEN [raised |-> TRUE, error |-> [type |-> "FileNotFoundError", what |-> "threshold.json"]]
    ELSE IF ~file.has_key
    THEN [raised |-> TRUE, error |-> [type |-> "ValueError", what |-> "threshold.json missing 'threshold' key"]]
    ELSE [raised |-> FALSE, thr |-> file.value]

\* np.where(scale == 0.0, 1.0, scale)
scale_safe(scale) == [k \in 1..Len(scale) |-> IF scale[k] = Zero THEN One ELSE scale[k]]

\* (x - mean) / scale for one row.
StandardizeRow(x, mean, scale) ==
    [k \in 1..Len(x) |-> RatDiv(RatSub(x[k], mean[k]), scale[k])]

\* standardize_with_json: the standardized matrix, or the ValueError, which
\* names the length of mean and the width of X.
standardize_with_json(M, scaler) ==
    LET width == Len(M[1]) IN
    IF Len(scaler.mean) # width \/ Len(scaler.scale) # width
    THEN [raised |-> TRUE,
          error |-> [type |-> "ValueError", what |-> "Scaler dim does not match input dim",
                     scaler_dim |-> Len(scaler.mean), input_dim |-> width]]
    ELSE [raised |-> FALSE,
          Xs |-> [i \in 1..Len(M) |-> StandardizeRow(M[i], scaler.mean, scale_safe(scaler.scale))]]

\* scaler.transform(X) of a scaler loaded with joblib (scikit-learn's
\* StandardScaler): it refuses a matrix of another width, and its scale_
\* holds no zero.
joblib_transform(M, scaler) ==
    LET width == Len(M[1]) IN
    IF Len(scaler.mean) # width
    THEN [raised |-> TRUE,
          error |-> [type |-> "ValueError", what |-> "X has a different number of features",
                     scaler_dim |-> Len(scaler.mean), input_dim |-> width]]
    ELSE [raised |-> FALSE,
          Xs |-> [i \in 1..Len(M) |-> StandardizeRow(M[i], scaler.mean, scaler.scale)]]

ScalerNotFound ==
    [raised |-> TRUE, error |-> [type |-> "FileNotFoundError", what |-> "No scaler found"]]

\* The scaler step of score_with_sklearn (scaler.joblib, else scaler.json,
\* else FileNotFoundError) and of score_with_tflite (the --scaler path:
\* JSON when it ends in .json, joblib otherwise; a missing file raises).
Standardized(M, scaler) ==
    CASE scaler.kind = "joblib" -> joblib_transform(M, scaler)
      [] scaler.kind = "json"   -> standardize_with_json(M, scaler)
      [] OTHER                  -> ScalerNotFound

\* What the model makes of one standardized row: the reconstruction, as
\* wide as the model's output.
Recon(model, xs) ==
    [k \in 1..model.out |->
        IF model.behaviour = "identity" /\ k <= Len(xs) THEN xs[k] ELSE Zero]

\* ((xs - recon) ** 2).mean() of one row.
RowMse(xs, recon) ==
    RatDiv(RatSum([k \in 1..Len(xs) |-> LET e == RatSub(xs[k], recon[k]) IN RatMul(e, e)]),
           Rat(Len(xs), 1))

\* The input width the model was built for: the last entry of its declared
\* input shape.
ModelWidth(model) == model.in_shape[Len(model.in_shape)]

\* What a runtime may do when it is handed rows of another width than the
\* model was built for: refuse, or compute on the data as it lies.
RuntimeOutcomes(model, d) ==
    IF ModelWidth(model) = d THEN {"runs"} ELSE {"raises", "runs"}

-----------------------------------------------------------------------------
(* infer_autoencoder.main: the steps of a run *)

Fail(e) ==
    /\ bpc' = "failed"
    /\ berr' = e

\* load_csv(args.csv)
LoadCsv ==
    /\ bpc = "start"
    /\ LET r == load_csv(csv) IN
       IF r.raised
       THEN Fail(r.error) /\ UNCHANGED <<X, src>>
       ELSE bpc' = "loaded" /\ X' = r.X /\ src' = r.src /\ UNCHANGED berr
    /\ UNCHANGED <<csv, bundle, Xs, ci, mse_list, fed, mse, thr, scores, out_csv,
                   serveVars, normVars, codecVars,
                   scalerVars, trainVars>>

\* The scaler step at the head of score_with_sklearn and score_with_tflite.
Standardize ==
    /\ bpc = "loaded"
    /\ LET r == Standardized(X, bundle.scaler) IN
       IF r.raised
       THEN Fail(r.error) /\ UNCHANGED Xs
       ELSE bpc' = "standardized" /\ Xs' = r.Xs /\ UNCHANGED berr
    /\ UNCHANGED <<csv, bundle, X, src, ci, mse_list, fed, mse, thr, scores, out_csv,
                   serveVars, normVars, codecVars,
                   scalerVars, trainVars>>

\* score_with_sklearn: model.predict(Xs) on the whole matrix, then the
\* comparison of the output shape with the input shape, then the errors.
SklearnPredict ==
    /\ bpc = "standardized"
    /\ bundle.backend = "sklearn"
    /\ fed' = src
    /\ \E outcome \in RuntimeOutcomes(bundle.model, Len(Xs[1])) :
         IF outcome = "raises"
         THEN Fail([type |-> "ValueError", what |-> "predict: X has a different number of features"])
              /\ UNCHANGED mse
         ELSE IF bundle.model.out # Len(Xs[1])
         THEN Fail([type |-> "ValueError", what |-> "Model output shape != input shape"])
              /\ UNCHANGED mse
         ELSE /\ mse' = [i \in 1..Len(Xs) |-> RowMse(Xs[i], Recon(bundle.model, Xs[i]))]
              /\ bpc' = "scored"
              /\ UNCHANGED berr
    /\ UNCHANGED <<csv, bundle, X, src, Xs, ci, mse_list, thr, scores, out_csv,
                   serveVars, normVars, codecVars,
                   scalerVars, trainVars>>

\* The input width score_with_tflite checks the rows against: shape[1] of
\* a two-dimensional input, and the rows' own width for any other shape.
ExpectedDim(model, d) ==
    IF Len(model.in_shape) = 2 THEN model.in_shape[2] ELSE d

\* score_with_tflite: the interpreter is created and the input width
\* compared; the batch loop starts at i = 0 with an empty mse_list.
TfliteOpen ==
    /\ bpc = "standardized"
    /\ bundle.backend = "tflite"
    /\ LET d == Len(Xs[1]) IN
       IF ExpectedDim(bundle.model, d) # d
       THEN Fail([type |-> "ValueError", what |-> "TFLite model expects another dim"])
       ELSE bpc' = "batching" /\ UNCHANGED berr
    /\ ci' = 0
    /\ mse_list' = <<>>
    /\ UNCHANGED <<csv, bundle, X, src, Xs, fed, mse, thr, scores, out_csv,
                   serveVars, normVars, codecVars,
                   scalerVars, trainVars>>

batch_size == 128

Min(a, b) == IF a < b THEN a ELSE b

\* Xs[i:i+batch_size], as the positions it takes.
BatchSlice_SkipsFirst(i, n) == (i + 2) .. Min(i + batch_size, n)

BatchSlice(i, n) == (i + 1) .. Min(i + batch_size, n)

SliceSeq(s, idx) ==
    IF idx = {} THEN <<>>
    ELSE LET lo == CHOOSE x \in idx : \A y \in idx : x <= y
         IN  [k \in 1..Cardinality(idx) |-> s[lo + k - 1]]

\* One iteration of `for i in range(0, Xs.shape[0], batch_size)`: the batch
\* is cut, the input tensor resized to it, the model invoked, and the
\* batch's errors appended to mse_list.
TfliteBatch ==
    /\ bpc = "batching"
    /\ ci < Len(Xs)
    /\ LET idx == BatchSlice(ci, Len(Xs))
           xb  == SliceSeq(Xs, idx)
       IN  /\ fed' = fed \o SliceSeq(src, idx)
           /\ \E outcome \in RuntimeOutcomes(bundle.model, Len(Xs[1])) :
                IF outcome = "raises"
                THEN Fail([type |-> "RuntimeError", what |-> "interpreter: tensor size mismatch"])
                     /\ UNCHANGED <<mse_list, ci>>
                ELSE IF bundle.model.out # Len(Xs[1])
                THEN Fail([type |-> "ValueError", what |-> "operands could not be broadcast"])
                     /\ UNCHANGED <<mse_list, ci>>
                ELSE /\ mse_list' = Append(mse_list,
                           [k \in 1..Len(xb) |-> RowMse(xb[k], Recon(bundle.model, xb[k]))])
                     /\ ci' = ci + batch_size
                     /\ UNCHANGED <<bpc, berr>>
    /\ UNCHANGED <<csv, bundle, X, src, Xs, mse, thr, scores, out_csv,
                   serveVars, normVars, codecVars,
                   scalerVars, trainVars>>

RECURSIVE Concatenate(_)
Concatenate(arrays) ==
    IF arrays = <<>> THEN <<>> ELSE Head(arrays) \o Concatenate(Tail(arrays))

\* The loop is over: mse = np.concatenate(mse_list).
TfliteConcatenate ==
    /\ bpc = "batching"
    /\ ci >= Len(Xs)
    /\ mse' = Concatenate(mse_list)
    /\ bpc' = "scored"
    /\ UNCHANGED <<csv, bundle, berr, X, src, Xs, ci, mse_list, fed, thr, scores,
                   out_csv, serveVars, normVars, codecVars,
                   scalerVars, trainVars>>

\* thr = load_threshold(threshold_path), the last statement of both
\* scoring functions.
LoadThreshold ==
    /\ bpc = "scored"
    /\ LET r == load_threshold(bundle.threshold) IN
       IF r.raised
       THEN Fail(r.error) /\ UNCHANGED thr
       ELSE bpc' = "thresholded" /\ thr' = r.thr /\ UNCHANGED berr
    /\ UNCHANGED <<csv, bundle, X, src, Xs, ci, mse_list, fed, mse, scores, out_csv,
                   serveVars, normVars, codecVars,
                   scalerVars, trainVars>>

\* The rows of --out: the CSV is read and filtered again and the columns
\* mse and score are set from the arrays, by position.
OutRows(rows, errs, scs) ==
    LET kept == Kept(rows)
    IN  [j \in 1..Len(kept) |-> [line |-> kept[j], row |-> rows[kept[j]],
                                 mse |-> errs[j], score |-> scs[j]]]

\* main after scoring: the scores, the summary, and the output file when
\* --out is given.
Finish ==
    /\ bpc = "thresholded"
    /\ scores' = [i \in 1..Len(mse) |-> BatchNormalize(mse[i], thr)]
    /\ \E want_out \in BOOLEAN :
         out_csv' = IF want_out THEN OutRows(csv, mse, scores') ELSE <<>>
    /\ bpc' = "done"
    /\ UNCHANGED <<csv, bundle, berr, X, src, Xs, ci, mse_list, fed, mse, thr,
                   serveVars, normVars, codecVars,
                   scalerVars, trainVars>>

BatchNext ==
    \/ LoadCsv
    \/ Standardize
    \/ SklearnPredict
    \/ TfliteOpen
    \/ TfliteBatch
    \/ TfliteConcatenate
    \/ LoadThreshold
    \/ Finish

-----------------------------------------------------------------------------
(* The batches and bundles drawn *)

Cells0 == <<0, 0, 0, 0, 0, 0, 0, 0, 0>>
Cells1 == <<2, 1, 0, 1, 1, 1, 0, 0, 1>>

CsvRows ==
    { Row("TAP", Cells0, TRUE),
      Row("SWIPE", Cells1, TRUE),
      Row("PINCH", Cells1, TRUE),
      Row("SWIPE", Cells1, FALSE) }

\* A scaler of n features: mean 0 but for the second feature, scale 1 but
\* for the second feature (2) and the last (`last`).
ScalerOf(kind, nmean, nscale, last) ==
    [ kind  |-> kind,
      mean  |-> [k \in 1..nmean |-> IF k = 2 THEN One ELSE Zero],
      scale |-> [k \in 1..nscale |-> IF k = 2 THEN Rat(2, 1)
                                     ELSE IF k = nscale THEN last ELSE One] ]

Scalers ==
    { ScalerOf("missing", 0, 0, One),
      ScalerOf("json", Len(feats), Len(feats), Zero),
      ScalerOf("json", Len(feats) - 1, Len(feats) - 1, One),
      ScalerOf("json", Len(feats), Len(feats) - 1, One),
      ScalerOf("joblib", Len(feats), Len(feats), One) }

ModelOf(shape, out, behaviour) == [in_shape |-> shape, out |-> out, behaviour |-> behaviour]

Models ==
    { ModelOf(<<1, Len(feats)>>, Len(feats), "identity"),
      ModelOf(<<1, Len(feats)>>, Len(feats), "zero"),
      ModelOf(<<1, Len(feats) + 2>>, Len(feats) + 2, "zero"),
      ModelOf(<<Len(feats) + 2>>, Len(feats), "zero"),
      ModelOf(<<Len(feats)>>, Len(feats), "zero"),
      ModelOf(<<1, Len(feats)>>, Len(feats) - 2, "zero") }

ThresholdFile(present, has_key, value) ==
    [present |-> present, has_key |-> has_key, value |-> value]

ThresholdFiles ==
    { ThresholdFile(FALSE, FALSE, Zero),
      ThresholdFile(TRUE, FALSE, Zero),
      ThresholdFile(TRUE, TRUE, Rat(-1, 1)),
      ThresholdFile(TRUE, TRUE, Zero),
      ThresholdFile(TRUE, TRUE, Rat(1, 2)) }

Bundles ==
    [ backend : {"sklearn", "tflite"}, scaler : Scalers, model : Models,
      threshold : ThresholdFiles ]

\* A batch run on some CSV file with some bundle.
BatchInit ==
    /\ csv \in SeqsUpTo(CsvRows, MaxRows)
    /\ bundle \in Bundles
    /\ bpc = "start"
    /\ BatchFresh
    /\ ServeIdle
    /\ NormIdle
    /\ OthersIdle

BatchSpec == BatchInit /\ [][BatchNext]_vars

\* Row i of a long file: a known label and measurements that differ from
\* row to row.
LongRow(i) ==
    Row(IF i % 2 = 0 THEN "TAP" ELSE "SWIPE",
        [k \in 1..(Len(feats) - 1) |-> IF k = 1 THEN i ELSE 1], TRUE)

\* A TFLite run with a consistent bundle on a file of up to MaxChunkRows
\* rows.
ChunkInit ==
    /\ \E n \in 1..MaxChunkRows : csv = [i \in 1..n |-> LongRow(i)]
    /\ bundle \in [ backend : {"tflite"},
                    scaler : {ScalerOf("json", Len(feats), Len(feats), Zero)},
                    model : {ModelOf(<<1, Len(feats)>>, Len(feats), "zero")},
                    threshold : {ThresholdFile(TRUE, TRUE, Rat(1000, 1))} ]
    /\ bpc = "start"
    /\ BatchFresh
    /\ ServeIdle
    /\ NormIdle
    /\ OthersIdle

ChunkNext ==
    \/ LoadCsv
    \/ Standardize
    \/ TfliteOpen
    \/ TfliteBatch
    \/ TfliteConcatenate
    \/ LoadThreshold
    \/ Finish

ChunkSpec == ChunkInit /\ [][ChunkNext]_vars

-----------------------------------------------------------------------------
(* numpy reductions used by training: mean and std of a column *)

\* The largest r in lo..hi with r * r <= n.
sqrt_search[n \in Nat, lo \in Nat, hi \in Nat] ==
    IF lo >= hi THEN lo
    ELSE LET mid == (lo + hi + 1) \div 2
         IN  IF mid * mid <= n THEN sqrt_search[n, mid, hi]
             ELSE sqrt_search[n, lo, mid - 1]

ISqrt(n) == sqrt_search[n, 0, Min(n, 46340)]

\* np.sqrt of a rational q >= 0: exact when q is the square of a rational,
\* and otherwise rounded up to the next multiple of 1/SqrtGrid (a float
\* square root is rounded too, and is 0 only for 0).
Sqrt(q) ==
    LET rn == ISqrt(q[1])
        rd == ISqrt(q[2])
    IN  IF rn * rn = q[1] /\ rd * rd = q[2] THEN Rat(rn, rd)
        ELSE LET c == (q[1] * SqrtGrid * SqrtGrid + q[2] - 1) \div q[2]
             IN  Rat(ISqrt(c - 1) + 1, SqrtGrid)

\* a.mean() of a non-empty array.
NpMean(a) == RatDiv(RatSum(a), Rat(Len(a), 1))

\* a.std() of a non-empty array: the population deviation (ddof = 0).
NpStd(a) ==
    LET m == NpMean(a)
    IN  Sqrt(NpMean([i \in 1..Len(a) |-> LET e == RatSub(a[i], m) IN RatMul(e, e)]))

\* Column k of a matrix given as a sequence of rows.
Column(M, k) == [i \in 1..Len(M) |-> M[i][k]]

-----------------------------------------------------------------------------
(* train_autoencoder_tf.main: fitting the scaler *)

ZeroStdKept(std) == std

\* std[std == 0] = 1.0
ZeroStdToOne(std) == [k \in 1..Len(std) |-> IF std[k] = Zero THEN One ELSE std[k]]

\* n, mean, std and Xs of a non-empty matrix, as main computes them.
fit_scaler(M) ==
    LET n     == Len(M[1])
        mean  == [k \in 1..n |-> NpMean(Column(M, k))]
        std   == ZeroStdToOne([k \in 1..n |-> NpStd(Column(M, k))])
    IN  [ n    |-> n,
          mean |-> mean,
          std  |-> std,
          Xs   |-> [i \in 1..Len(M) |->
                      [k \in 1..n |-> NpDivide(RatSub(M[i][k], mean[k]), std[k])]] ]

\* json.dump({"mean": mean.tolist(), "scale": std.tolist()}, f)
ScalerJson(fit) == [kind |-> "json", mean |-> fit.mean, scale |-> fit.std]

-----------------------------------------------------------------------------
(* The standardizer on its own: fit on one matrix, apply to another *)

\* The recognized, fully numeric rows of a CSV file.
NormalRows == {r \in CsvRows : IsRecognized(r) /\ r.numeric}

Matrices == { [i \in 1..Len(rs) |-> FeatureVector(rs[i])] :
                rs \in SeqsUpTo(NormalRows, MaxRows) \ {<<>>} }

ScalerInit ==
    /\ sio \in { [pc |-> "start", X |-> M] : M \in Matrices }
    /\ ServeIdle /\ NormIdle /\ BatchIdle /\ CodecIdle /\ TrainIdle

\* Training fits the scaler on X and writes scaler.json.
Fit ==
    /\ sio.pc = "start"
    /\ LET f == fit_scaler(sio.X)
       IN  sio' = [pc |-> "fitted", X |-> sio.X, fit |-> f, written |-> ScalerJson(f)]
    /\ UNCHANGED <<serveVars, normVars, batchVars, codecVars, trainVars>>

\* Inference applies a stored scaler, the one training wrote or another
\* scaler.json, to a matrix.
Apply ==
    /\ sio.pc = "fitted"
    /\ \E stored \in {sio.written} \cup {sc \in Scalers : sc.kind = "json"}, M \in Matrices :
         sio' = [pc |-> "applied", X |-> sio.X, fit |-> sio.fit, written |-> sio.written,
                 stored |-> stored, M |-> M, out |-> standardize_with_json(M, stored)]
    /\ UNCHANGED <<serveVars, normVars, batchVars, codecVars, trainVars>>

ScalerNext == Fit \/ Apply

ScalerSpec == ScalerInit /\ [][ScalerNext]_vars

-----------------------------------------------------------------------------
(* gesture_map.py: the label codec *)

\* Further values a map document can hold: a string that spells a number,
\* the NaN literal json.load accepts, a nested list.
JNumStr(n) == [t |-> "numstr", n |-> n]
JNaN       == [t |-> "nan",    n |-> 0]
JList      == [t |-> "list",   n |-> 0]

\* float(v) raises TypeError or ValueError for these.
FloatRaises(v) == v.t \in {"str", "NoneType", "list"}

\* float(v) where it does not raise: of a number, of a bool (True is 1.0),
\* of a string that spells a number.
PyFloat(v) == IF v.t = "nan" THEN NaN ELSE Rat(v.n, 1)

\* A mapping is a dict, which keeps its items in insertion order: a
\* sequence of items [k, v] with distinct keys.
Item(k, v) == [k |-> k, v |-> v]

\* dict(DEFAULT_MAP), in the order the literal lists the items.
DefaultItems == << Item("TAP", DEFAULT_MAP.TAP), Item("SWIPE", DEFAULT_MAP.SWIPE) >>

Keys(mapping) == {mapping[i].k : i \in 1..Len(mapping)}

\* mapping[gesture] for a key of the mapping.
Lookup(mapping, gesture) ==
    mapping[CHOOSE i \in 1..Len(mapping) : mapping[i].k = gesture].v

\* load_map applied to the parsed document.
load_map(doc) ==
    IF ~doc.is_object
    THEN [raised |-> TRUE, error |-> [type |-> "ValueError", what |-> "Gesture map JSON must be an object"]]
    ELSE IF \E i \in 1..Len(doc.members) : FloatRaises(doc.members[i].v)
    THEN [raised |-> TRUE, error |-> [type |-> "ValueError", what |-> "Gesture map value must be numeric"]]
    ELSE IF doc.members = <<>>
    THEN [raised |-> TRUE, error |-> [type |-> "ValueError", what |-> "Gesture map is empty"]]
    ELSE [raised |-> FALSE,
          mapping |-> [i \in 1..Len(doc.members) |->
                          Item(doc.members[i].k, PyFloat(doc.members[i].v))]]

to_numeric_TruthyDefault(gesture, mapping, default) ==
    IF gesture \in Keys(mapping)
    THEN [raised |-> FALSE, value |-> Lookup(mapping, gesture)]
    ELSE IF default.t # "NoneType" /\ default.n # 0
    THEN [raised |-> FALSE, value |-> PyFloat(default)]
    ELSE [raised |-> TRUE, value |-> NaN]

\* to_numeric; default is None (JNull) when the caller gives none.
to_numeric(gesture, mapping, default) ==
    IF gesture \in Keys(mapping)
    THEN [raised |-> FALSE, value |-> Lookup(mapping, gesture)]
    ELSE IF default.t # "NoneType"
    THEN [raised |-> FALSE, value |-> PyFloat(default)]
    ELSE [raised |-> TRUE, value |-> NaN]

RatAbs(a) == IF a[1] < 0 THEN RatNeg(a) ELSE a

\* abs(float(v) - float(value)) <= tol; a comparison with nan is false.
Within(v, value, tol) ==
    IsRat(v) /\ IsRat(value) /\ RatLeq(RatAbs(RatSub(v, value)), tol)

\* from_numeric: the key of the first item, in the order of the dict, whose
\* value is within tol; KeyError when there is none.
from_numeric(value, mapping, tol) ==
    LET hits == {i \in 1..Len(mapping) : Within(mapping[i].v, value, tol)}
    IN  IF hits = {}
        THEN [raised |-> TRUE, label |-> "KeyError"]
        ELSE [raised |-> FALSE,
              label |-> mapping[CHOOSE i \in hits : \A j \in hits : i <= j].k]

\* The default of the parameter tol, 1e-6.
DefaultTol == Rat(1, 1000000)

-----------------------------------------------------------------------------
(* The codec's callers: a map is obtained, then labels are encoded and decoded *)

\* The JSON document of a map file: an object with its members in file
\* order, or something that is no object.
ObjectDoc(members) == [is_object |-> TRUE, members |-> members]
NonObjectDoc == [is_object |-> FALSE, members |-> <<>>]

Labels == {"TAP", "SWIPE", "PINCH"}

MapValues == {JInt(0), JInt(1), JFloat(2), JTrue, JNumStr(0), JStr, JNull, JNaN, JList}

\* The member lists of up to MaxLabels members with distinct keys.
MemberLists ==
    { ms \in SeqsUpTo({Item(k, v) : k \in Labels, v \in MapValues}, MaxLabels) :
        \A i, j \in 1..Len(ms) : ms[i].k = ms[j].k => i = j }

MapDocs == {NonObjectDoc} \cup {ObjectDoc(ms) : ms \in MemberLists}

Defaults == {JNull, JInt(0), JFloat(2)}

Codes == {Zero, Rat(1, 2), One, Rat(2, 1)}

Tols == {DefaultTol, Rat(1, 2), One}

CodecInit ==
    /\ cmap \in {[pc |-> "start", source |-> "default", doc |-> NonObjectDoc]}
                \cup {[pc |-> "start", source |-> "file", doc |-> d] : d \in MapDocs}
    /\ cq = [op |-> "none"]
    /\ ServeIdle /\ NormIdle /\ BatchIdle /\ ScalerIdle /\ TrainIdle

\* get_default_map()
GetDefaultMap ==
    /\ cmap.pc = "start"
    /\ cmap.source = "default"
    /\ cmap' = [pc |-> "loaded", source |-> cmap.source, doc |-> cmap.doc,
                mapping |-> DefaultItems]
    /\ UNCHANGED <<cq, serveVars, normVars, batchVars, scalerVars, trainVars>>

\* load_map(path)
LoadMap ==
    /\ cmap.pc = "start"
    /\ cmap.source = "file"
    /\ LET r == load_map(cmap.doc) IN
       cmap' = IF r.raised
               THEN [pc |-> "failed", source |-> cmap.source, doc |-> cmap.doc,
                     error |-> r.error]
               ELSE [pc |-> "loaded", source |-> cmap.source, doc |-> cmap.doc,
                     mapping |-> r.mapping]
    /\ UNCHANGED <<cq, serveVars, normVars, batchVars, scalerVars, trainVars>>

\* to_numeric(gesture, mapping, default)
Encode ==
    /\ cmap.pc = "loaded"
    /\ \E gesture \in Labels, default \in Defaults :
         cq' = [op |-> "to_numeric", gesture |-> gesture, default |-> default,
                res |-> to_numeric(gesture, cmap.mapping, default)]
    /\ UNCHANGED <<cmap, serveVars, normVars, batchVars, scalerVars, trainVars>>

\* from_numeric(value, mapping, tol)
Decode ==
    /\ cmap.pc = "loaded"
    /\ \E value \in Codes, tol \in Tols :
         cq' = [op |-> "from_numeric", value |-> value, tol |-> tol,
                res |-> from_numeric(value, cmap.mapping, tol)]
    /\ UNCHANGED <<cmap, serveVars, normVars, batchVars, scalerVars, trainVars>>

\* from_numeric(to_numeric(gesture, mapping), mapping, tol) for a label of
\* the mapping.
RoundTrip ==
    /\ cmap.pc = "loaded"
    /\ \E gesture \in Keys(cmap.mapping), tol \in Tols :
         LET enc == to_numeric(gesture, cmap.mapping, JNull) IN
         cq' = [op |-> "round_trip", gesture |-> gesture, tol |-> tol, enc |-> enc,
                res |-> from_numeric(enc.value, cmap.mapping, tol)]
    /\ UNCHANGED <<cmap, serveVars, normVars, batchVars, scalerVars, trainVars>>

CodecNext == GetDefaultMap \/ LoadMap \/ Encode \/ Decode \/ RoundTrip

CodecSpec == CodecInit /\ [][CodecNext]_vars

-----------------------------------------------------------------------------
(* train_autoencoder_tf.py: collecting the corpus *)

\* _load_one_csv: the matrix of the recognized rows of one file, the 0 x 0
\* matrix when no row is recognized, or the error raised by read_csv on a
\* file without rows or by astype(np.float32) on a cell that is no number.
load_one_csv(rows) ==
    LET kept == Kept(rows) IN
    IF rows = <<>>
    THEN [raised |-> TRUE, error |-> [type |-> "EmptyDataError", what |-> "No columns to parse from file"]]
    ELSE IF kept = <<>>
    THEN [raised |-> FALSE, M |-> <<>>]
    ELSE IF \E j \in 1..Len(kept) : ~rows[kept[j]].numeric
    THEN [raised |-> TRUE, error |-> [type |-> "ValueError", what |-> "could not convert string to float"]]
    ELSE [raised |-> FALSE, M |-> [j \in 1..Len(kept) |-> FeatureVector(rows[kept[j]])]]

\* load_csvs on the sorted list of matched files: FileNotFoundError when
\* nothing matched, the error of the first file that raises, ValueError
\* when no file has a recognized row, else the matrices stacked.
load_csvs(files) ==
    IF files = <<>>
    THEN [raised |-> TRUE, error |-> [type |-> "FileNotFoundError", what |-> "No CSV files matched"]]
    ELSE IF \E i \in 1..Len(files) : load_one_csv(files[i]).raised
    THEN [raised |-> TRUE,
          error |-> load_one_csv(files[CHOOSE i \in 1..Len(files) :
                                   /\ load_one_csv(files[i]).raised
                                   /\ \A j \in 1..(i - 1) : ~load_one_csv(files[j]).raised]).error]
    ELSE LET arrays == Concatenate([i \in 1..Len(files) |-> load_one_csv(files[i]).M])
         IN  IF arrays = <<>>
             THEN [raised |-> TRUE, error |-> [type |-> "ValueError", what |-> "No valid rows found in the matched CSV files."]]
             ELSE [raised |-> FALSE, M |-> arrays]

\* build_model(n): a network from n inputs to n outputs; what it
\* reconstructs after model.fit is one of the behaviours.
build_model(n, behaviour) == ModelOf(<<1, n>>, n, behaviour)

\* thr = float(np.mean(mse) + args.threshold_k * np.std(mse))
threshold_of(errs, k) == RatAdd(NpMean(errs), RatMul(k, NpStd(errs)))

-----------------------------------------------------------------------------
(* The output directory *)

Absent == 0

NoScalerFile    == [run |-> Absent, mean |-> <<>>, scale |-> <<>>]
NoThresholdFile == [run |-> Absent, value |-> Zero]
NoModelFile     == [run |-> Absent, in_shape |-> <<>>, out |-> 0]
NoReportFile    == [run |-> Absent]

\* models/touch_ae_tflite_tf before any run.
NoDirectory ==
    [ exists |-> FALSE, scaler |-> NoScalerFile, threshold |-> NoThresholdFile,
      model |-> NoModelFile, report |-> NoReportFile ]

\* The directory as an earlier, complete run left it.
EarlierRun == 1

EarlierBundle ==
    [ exists    |-> TRUE,
      scaler    |-> [run |-> EarlierRun, mean |-> [k \in 1..Len(feats) |-> Zero],
                     scale |-> [k \in 1..Len(feats) |-> One]],
      threshold |-> [run |-> EarlierRun, value |-> Rat(1, 2)],
      model     |-> [run |-> EarlierRun, in_shape |-> <<1, Len(feats)>>, out |-> Len(feats)],
      report    |-> [run |-> EarlierRun] ]

ThisRun == 2

-----------------------------------------------------------------------------
(* train_autoencoder_tf.main: the steps of a run *)

NoLocals ==
    [ n |-> 0, X |-> <<>>, mean |-> <<>>, std |-> <<>>, Xs |-> <<>>,
      model |-> ModelOf(<<>>, 0, "zero"), mse |-> <<>>, thr |-> Zero ]

\* The step is entered in the run's log and the run moves on.
Step(name, next) ==
    /\ tlog' = Append(tlog, name)
    /\ tpc' = next

\* An exception leaves main at the step.
TrainFail(name, e) ==
    /\ tlog' = Append(tlog, name)
    /\ tpc' = "failed"
    /\ terr' = e

OtherThanTraining == <<serveVars, normVars, batchVars, codecVars, scalerVars>>

\* os.makedirs(args.out, exist_ok=True)
MakeDirs ==
    /\ tpc = "start"
    /\ outdir' = [outdir EXCEPT !.exists = TRUE]
    /\ Step("makedirs", "collect")
    /\ UNCHANGED <<tin, terr, tloc, OtherThanTraining>>

\* X = load_csvs(patterns)
Collect ==
    /\ tpc = "collect"
    /\ LET r == load_csvs(tin.files) IN
       IF r.raised
       THEN TrainFail("load_csvs", r.error) /\ UNCHANGED tloc
       ELSE /\ tloc' = [tloc EXCEPT !.X = r.M]
            /\ Step("load_csvs", "fit_scaler")
            /\ UNCHANGED terr
    /\ UNCHANGED <<tin, outdir, OtherThanTraining>>

FitScaler_WritesScaler ==
    /\ tpc = "fit_scaler"
    /\ LET f == fit_scaler(tloc.X) IN
       /\ tloc' = [tloc EXCEPT !.n = f.n, !.mean = f.mean, !.std = f.std, !.Xs = f.Xs]
       /\ outdir' = [outdir EXCEPT !.scaler = [run |-> tin.run, mean |-> f.mean, scale |-> f.std]]
    /\ Step("fit_scaler", "fit_model")
    /\ UNCHANGED <<tin, terr, OtherThanTraining>>

\* n, mean, std with the zero deviations replaced, Xs
FitScaler ==
    /\ tpc = "fit_scaler"
    /\ LET f == fit_scaler(tloc.X) IN
       tloc' = [tloc EXCEPT !.n = f.n, !.mean = f.mean, !.std = f.std, !.Xs = f.Xs]
    /\ Step("fit_scaler", "fit_model")
    /\ UNCHANGED <<tin, terr, outdir, OtherThanTraining>>

\* model = build_model(n); model.fit(Xs, Xs, ...)
FitModel ==
    /\ tpc = "fit_model"
    /\ \E behaviour \in {"identity", "zero"} :
         tloc' = [tloc EXCEPT !.model = build_model(tloc.n, behaviour)]
    /\ Step("fit_model", "compute_threshold")
    /\ UNCHANGED <<tin, terr, outdir, OtherThanTraining>>

\* pred = model.predict(Xs); mse; thr
ComputeThreshold ==
    /\ tpc = "compute_threshold"
    /\ LET errs == [i \in 1..Len(tloc.Xs) |->
                      RowMse(tloc.Xs[i], Recon(tloc.model, tloc.Xs[i]))]
       IN  tloc' = [tloc EXCEPT !.mse = errs, !.thr = threshold_of(errs, tin.k)]
    /\ Step("compute_threshold", "write_scaler")
    /\ UNCHANGED <<tin, terr, outdir, OtherThanTraining>>

\* scaler.json is written.
WriteScaler ==
    /\ tpc = "write_scaler"
    /\ outdir' = [outdir EXCEPT !.scaler =
                    [run |-> tin.run, mean |-> tloc.mean, scale |-> tloc.std]]
    /\ Step("write_scaler", "write_threshold")
    /\ UNCHANGED <<tin, terr, tloc, OtherThanTraining>>

\* threshold.json is written.
WriteThreshold ==
    /\ tpc = "write_threshold"
    /\ outdir' = [outdir EXCEPT !.threshold = [run |-> tin.run, value |-> tloc.thr]]
    /\ Step("write_threshold", "convert")
    /\ UNCHANGED <<tin, terr, tloc, OtherThanTraining>>

\* converter.convert(): it returns the flatbuffer, or raises.
Convert ==
    /\ tpc = "convert"
    /\ \E converts \in BOOLEAN :
         IF converts
         THEN Step("convert", "write_model") /\ UNCHANGED terr
         ELSE TrainFail("convert", [type |-> "ConverterError", what |-> "conversion failed"])
    /\ UNCHANGED <<tin, tloc, outdir, OtherThanTraining>>

\* touch_ae.tflite is written.
WriteModel ==
    /\ tpc = "write_model"
    /\ outdir' = [outdir EXCEPT !.model =
                    [run |-> tin.run, in_shape |-> tloc.model.in_shape, out |-> tloc.model.out]]
    /\ Step("write_model", "write_report")
    /\ UNCHANGED <<tin, terr, tloc, OtherThanTraining>>

\* report.txt is written and main returns.
WriteReport ==
    /\ tpc = "write_report"
    /\ outdir' = [outdir EXCEPT !.report = [run |-> tin.run]]
    /\ Step("write_report", "done")
    /\ UNCHANGED <<tin, terr, tloc, OtherThanTraining>>

TrainNext ==
    \/ MakeDirs
    \/ Collect
    \/ FitScaler
    \/ FitModel
    \/ ComputeThreshold
    \/ WriteScaler
    \/ WriteThreshold
    \/ Convert
    \/ WriteModel
    \/ WriteReport

-----------------------------------------------------------------------------
(* The training runs drawn *)

\* The files a pattern can match: without rows, without a recognized row,
\* one row, two different rows, a recognized row among others, twice the
\* same row, a recognized row with a cell that is no number.
CsvFiles ==
    { <<>>,
      << Row("PINCH", Cells1, TRUE) >>,
      << Row("TAP", Cells0, TRUE) >>,
      << Row("TAP", Cells0, TRUE), Row("SWIPE", Cells1, TRUE) >>,
      << Row("PINCH", Cells1, TRUE), Row("SWIPE", Cells1, TRUE) >>,
      << Row("SWIPE", Cells1, TRUE), Row("SWIPE", Cells1, TRUE) >>,
      << Row("SWIPE", Cells1, FALSE) >> }

\* Values of --threshold_k: the default 3.0, and others type=float accepts.
ThresholdKs == {Rat(3, 1), Zero, Rat(-1, 1)}

TrainInit ==
    /\ tin \in [ run : {ThisRun}, files : SeqsUpTo(CsvFiles, MaxFiles), k : ThresholdKs ]
    /\ tpc = "start"
    /\ terr = NoError
    /\ tloc = NoLocals
    /\ outdir \in {NoDirectory, EarlierBundle}
    /\ tlog = <<>>
    /\ ServeIdle /\ NormIdle /\ BatchIdle /\ CodecIdle /\ ScalerIdle

TrainSpec == TrainInit /\ [][TrainNext]_vars

-----------------------------------------------------------------------------
(* Properties of the persistent service *)

Consumed == SubSeq(input, 1, pos)

IsBlank(line)     == line.text.form = "empty"
IsMalformed(line) == line.text.form = "garbage"
IsObject(line)    == line.text.form = "json" /\ line.text.doc.type = "dict"
\* Not valid JSON, or JSON whose processing raises (no object).
IsBadLine(line)   == ~IsBlank(line) /\ ~IsObject(line)

RECURSIVE NonBlank(_)
NonBlank(ls) ==
    IF ls = <<>> THEN <<>>
    ELSE (IF IsBlank(Head(ls)) THEN <<>> ELSE <<Head(ls)>>) \o NonBlank(Tail(ls))

IsErrorRecord(r) == DOMAIN r = {"ok", "error"} /\ r.ok = FALSE

AnswerTo(line) == TryBody(line).rec

RECURSIVE Answers(_)
Answers(ls) ==
    IF ls = <<>> THEN <<>> ELSE <<AnswerTo(Head(ls))>> \o Answers(Tail(ls))

\* C2 as stated: after n lines have been consumed exactly n lines have been
\* written, the i-th being the answer to the i-th input line.
C2_OneOutputPerInputLine ==
    /\ Len(output) = pos
    /\ \A i \in 1..Len(output) :
          ~IsBlank(input[i]) /\ output[i] = AnswerTo(input[i])

\* C2 as amended: exactly one output line per input line that is not blank
\* (empty or whitespace only), in the same order; a blank line is consumed
\* and nothing is written for it.  After n lines have been consumed, b of
\* them blank, exactly n - b lines have been written, the i-th being the
\* answer to the i-th line that is not blank.
C2_OneOutputPerNonBlankLine ==
    output = Answers(NonBlank(Consumed))

\* A blank line was consumed between two answered lines, one of them
\* malformed.
C2_Witness ==
    /\ pos = 3
    /\ IsMalformed(input[1])
    /\ IsBlank(input[2])
    /\ IsObject(input[3])
    /\ Len(output) = 2
    /\ output[2].ok = TRUE

\* C3: on every finite input the loop eventually ends, it ends only when no
\* unread line is left, and when it has ended every response is written.
C3_TerminatesExactlyAtEndOfInput ==
    /\ <>(spc = "done")
    /\ [][spc' = "done" => pos = Len(input)]_vars
    /\ [](spc = "done" =>
            /\ pos = Len(input)
            /\ output = Answers(NonBlank(input)))

\* The loop has ended on an input of several lines, a malformed one among
\* them.
C3_Witness ==
    /\ spc = "done"
    /\ Len(input) >= 2
    /\ \E i \in 1..Len(input) : IsMalformed(input[i])
    /\ pos = Len(input)

\* The keys of SCALES an object holds with a JSON number as value.
NumericKeys(obj) ==
    {k \in KeySet \cap DOMAIN obj : obj[k].t \in {"int", "float"}}

RECURSIVE SumOver(_, _)
SumOver(obj, ks) ==
    IF ks = {} THEN Zero
    ELSE LET k == CHOOSE x \in ks : TRUE
         IN  RatAdd(SquaredRatio(obj[k], SCALES[k]), SumOver(obj, ks \ {k}))

MeanOverNumericKeys(obj) ==
    LET ks == NumericKeys(obj)
    IN  IF ks = {} THEN Zero
        ELSE RatDiv(SumOver(obj, ks), Rat(Cardinality(ks), 1))

\* C4: a line that parses to a JSON object is answered ok, with mse the
\* mean of (value / scale)^2 over exactly the known keys that hold a JSON
\* number; an object with no such key gets mse 0 and score 0.
C4_MseOverNumericKeys ==
    \A i \in 1..pos :
        IsObject(input[i]) =>
            LET obj == input[i].text.doc.members
                r   == output[i]
            IN  /\ r.ok = TRUE
                /\ r.mse = MeanOverNumericKeys(obj)
                /\ (NumericKeys(obj) = {} => r.mse = Zero /\ r.score = Zero)

-----------------------------------------------------------------------------
(* Properties of the threshold normalisation *)

\* min(1, mse / threshold), stated without the code's operators.
ClampedRatio(err, threshold) ==
    IF err[1] * threshold[2] >= threshold[1] * err[2] THEN One
    ELSE <<err[1] * threshold[2], err[2] * threshold[1]>>

SameNumber(x, y) == IsRat(x) /\ IsRat(y) /\ x[1] * y[2] = y[1] * x[2]

\* C5: for mse >= 0 and threshold > 0 the score of either normaliser is
\* min(1, mse / threshold): it lies in [0, 1], does not decrease when mse
\* grows, is 1 when mse >= threshold and 0 when mse = 0.
C5_ScoreIsClampedRatio ==
    nout.done =>
        /\ SameNumber(nout.batch_a, ClampedRatio(nin.a, nin.thr))
        /\ SameNumber(nout.batch_b, ClampedRatio(nin.b, nin.thr))
        /\ nout.service_a = nout.batch_a
        /\ nout.service_b = nout.batch_b
        /\ \A sc \in {nout.batch_a, nout.service_a} :
              /\ IsRat(sc)
              /\ RatLeq(Zero, sc) /\ RatLeq(sc, One)
              /\ (RatLeq(nin.thr, nin.a) => sc = One)
              /\ (nin.a = Zero => sc = Zero)
        /\ (RatLeq(nin.a, nin.b) =>
              /\ RatLeq(nout.batch_a, nout.batch_b)
              /\ RatLeq(nout.service_a, nout.service_b))

\* An error equal to the threshold scored 1, an error of 0 scored 0.
C5_Witness ==
    /\ nout.done
    /\ nin.a = nin.thr
    /\ nin.b = Zero
    /\ nin.thr # One
    /\ nout.batch_a = One /\ nout.service_a = One
    /\ nout.batch_b = Zero /\ nout.service_b = Zero

\* An error strictly between 0 and the threshold, and one above it.
C5_WitnessInside ==
    /\ nout.done
    /\ RatLt(Zero, nin.a) /\ RatLt(nin.a, nin.thr) /\ RatLt(nin.thr, nin.b)
    /\ RatLt(Zero, nout.service_a) /\ RatLt(nout.batch_a, One)
    /\ nout.batch_b = One

-----------------------------------------------------------------------------
(* Properties of the batch driver *)

\* The steps a run is in once scoring has returned.
Reconstructed == {"scored", "thresholded", "done"}

\* C6: a threshold artifact whose value is zero or negative makes the batch
\* driver fail instead of normalizing: no run on such a threshold completes
\* and no score is computed from it.
C6_NonPositiveThresholdRejected ==
    ( /\ bundle.threshold.present
      /\ bundle.threshold.has_key
      /\ RatLeq(bundle.threshold.value, Zero) )
    => (bpc # "done" /\ scores = <<>>)

\* The positions of the rows of the file whose label is in the gesture map.
RecognizedLines == {i \in 1..Len(csv) : csv[i].label \in {"TAP", "SWIPE"}}

\* The j-th of them, counted from the top of the file.
NthRecognized(j) ==
    CHOOSE i \in RecognizedLines : Cardinality({h \in RecognizedLines : h <= i}) = j

\* The reconstruction error of one row of the file under the run's bundle.
ErrorOfRow(row) ==
    LET xs == Standardized(<<FeatureVector(row)>>, bundle.scaler).Xs[1]
    IN  RowMse(xs, Recon(bundle.model, xs))

\* C7: the batch driver scores exactly the rows whose label is in the
\* gesture map, in file order, and drops the others: with k >= 1 recognized
\* rows the matrix has k rows and a completed run has k scores (and k output
\* records when the output file is written), the j-th being that of the
\* j-th recognized row; with no recognized row the run fails in load_csv
\* and there are no scores and no records.
C7_ScoresExactlyRecognizedRowsInOrder ==
    LET k == Cardinality(RecognizedLines) IN
    /\ (bpc \notin {"off", "start"} /\ k = 0) =>
          /\ bpc = "failed"
          /\ berr.what \in {"No valid rows found", "No columns to parse from file"}
          /\ X = <<>> /\ fed = <<>> /\ mse = <<>>
    /\ bpc # "done" => (scores = <<>> /\ out_csv = <<>>)
    /\ (bpc \notin {"off", "start", "failed"}) =>
          /\ k >= 1
          /\ Len(X) = k
          /\ \A j \in 1..k : X[j] = FeatureVector(csv[NthRecognized(j)])
    /\ bpc = "done" =>
          /\ Len(scores) = k
          /\ \A j \in 1..k :
                scores[j] = BatchNormalize(ErrorOfRow(csv[NthRecognized(j)]),
                                           bundle.threshold.value)
          /\ out_csv # <<>> =>
                /\ Len(out_csv) = k
                /\ \A j \in 1..k :
                      /\ out_csv[j].line = NthRecognized(j)
                      /\ out_csv[j].row = csv[NthRecognized(j)]
                      /\ out_csv[j].score = scores[j]

\* A completed run on TAP, PINCH, SWIPE: two records, those of lines 1 and
\* 3, with different scores.
C7_Witness ==
    /\ bpc = "done"
    /\ Len(csv) = 3
    /\ csv[1].label = "TAP" /\ csv[2].label = "PINCH" /\ csv[3].label = "SWIPE"
    /\ Len(scores) = 2
    /\ Len(out_csv) = 2
    /\ out_csv[1].line = 1 /\ out_csv[2].line = 3
    /\ scores[1] # scores[2]

\* The errors of all rows of Xs computed in one batch.
SingleBatchErrors ==
    [i \in 1..Len(Xs) |-> RowMse(Xs[i], Recon(bundle.model, Xs[i]))]

\* C8: the chunked loop of the TFLite backend hands every row to the model
\* exactly once, in order, and the concatenated error vector has one entry
\* per row, entry i being the error of row i: the vector a single batch of
\* all rows gives.
C8_BatchingPreservesErrors ==
    /\ (bpc = "batching") =>
          /\ fed = SubSeq(src, 1, Min(ci, Len(Xs)))
          /\ Concatenate(mse_list) = SubSeq(SingleBatchErrors, 1, Min(ci, Len(Xs)))
    /\ (bpc \in Reconstructed /\ bundle.backend = "tflite") =>
          /\ fed = src
          /\ \A i, j \in 1..Len(fed) : fed[i] = fed[j] => i = j
          /\ Len(mse) = Len(Xs)
          /\ Len(Xs) = Len(src)
          /\ mse = SingleBatchErrors

\* A file of two full batches and two more rows has been scored in three
\* chunks.
C8_Witness ==
    /\ bpc = "scored"
    /\ Len(Xs) = 2 * batch_size + 2
    /\ Len(mse_list) = 3
    /\ Len(mse_list[3]) = 2
    /\ Len(mse) = Len(Xs)
    /\ mse[1] # mse[Len(mse)]

\* C9: when the scaler has N features and the model expects M # N, the run
\* fails before the model is handed any row, and no score comes of it.
C9_DimensionMismatchCaughtBeforeInvocation ==
    ( /\ bpc # "off"
      /\ bundle.scaler.kind # "missing"
      /\ Len(bundle.scaler.mean) # ModelWidth(bundle.model) )
    => (fed = <<>> /\ mse = <<>> /\ scores = <<>> /\ bpc # "done")

\* A threshold file that is missing, lacks the key, or holds a value <= 0.
ThresholdInvalid(file) ==
    \/ ~file.present
    \/ ~file.has_key
    \/ RatLeq(file.value, Zero)

\* C10: every artifact is loaded and checked before any reconstruction: with
\* a missing or invalid threshold file the model is handed no row and no
\* reconstruction error is computed.
C10_ArtifactsValidatedBeforeReconstruction ==
    (bpc # "off" /\ ThresholdInvalid(bundle.threshold))
    => (fed = <<>> /\ mse_list = <<>> /\ mse = <<>>)

-----------------------------------------------------------------------------
(* Properties of the standardizer *)

\* C11: standardize_with_json returns a result only when the mean and the
\* scale both have the input's width; when either length differs the run
\* fails with the dimension error, and the two dimensions that error names
\* are two that disagree.
C11_DimensionErrorNamesDisagreeingDims ==
    (bpc \notin {"off", "start", "loaded"} /\ bundle.scaler.kind = "json" /\ X # <<>>) =>
        LET width == Len(X[1])
            fits  == Len(bundle.scaler.mean) = width /\ Len(bundle.scaler.scale) = width
        IN  /\ Xs # <<>> => fits
            /\ ~fits =>
                  /\ bpc = "failed"
                  /\ berr.what = "Scaler dim does not match input dim"
                  /\ berr.scaler_dim # berr.input_dim

\* Whether column k of a matrix holds one value only.
IsConstantColumn(M, k) == \A i \in 1..Len(M) : M[i][k] = M[1][k]

\* C12: standardization never divides by zero.  The scale training fits
\* and writes has no zero entry, and is 1 for every column without
\* deviation; applying a stored scaler treats a scale entry of 0 as 1, so
\* the feature standardizes to value - mean, and every standardized value
\* is a finite number.
C12_NoDivisionByZero ==
    /\ sio.pc \in {"fitted", "applied"} =>
          \A k \in 1..sio.fit.n :
             /\ sio.fit.std[k] # Zero
             /\ sio.written.scale[k] # Zero
             /\ IsConstantColumn(sio.X, k) =>
                   /\ sio.written.scale[k] = One
                   /\ \A i \in 1..Len(sio.X) : sio.fit.Xs[i][k] = RatSub(sio.X[i][k], sio.fit.mean[k])
             /\ \A i \in 1..Len(sio.X) : IsRat(sio.fit.Xs[i][k])
    /\ (sio.pc = "applied" /\ ~sio.out.raised) =>
          \A i \in 1..Len(sio.M) : \A k \in 1..Len(sio.M[i]) :
             /\ IsRat(sio.out.Xs[i][k])
             /\ sio.stored.scale[k] = Zero =>
                   sio.out.Xs[i][k] = RatSub(sio.M[i][k], sio.stored.mean[k])

\* Training met a column without deviation and one with, and a stored
\* scaler with a zero scale entry was applied to a row whose value there
\* differs from the mean.
C12_Witness ==
    /\ sio.pc = "applied"
    /\ ~sio.out.raised
    /\ \E k \in 1..sio.fit.n : IsConstantColumn(sio.X, k) /\ sio.written.scale[k] = One
    /\ \E k \in 1..sio.fit.n : ~IsConstantColumn(sio.X, k) /\ sio.written.scale[k] # One
    /\ \E k \in 1..Len(sio.stored.scale) :
          /\ sio.stored.scale[k] = Zero
          /\ sio.out.Xs[1][k] # Zero

-----------------------------------------------------------------------------
(* Properties of the label codec *)

\* C13: for the default map and every map load_map returns, and every
\* label l of it, from_numeric(to_numeric(l, map), map, tol) with the
\* default tol returns l.
C13_LabelRoundTrip ==
    (cq.op = "round_trip" /\ cq.tol = DefaultTol) =>
        /\ ~cq.enc.raised
        /\ ~cq.res.raised
        /\ cq.res.label = cq.gesture

\* How far the code of item i of the loaded mapping is from the value
\* looked up.
Distance(i) == RatAbs(RatSub(cmap.mapping[i].v, cq.value))

\* C14: from_numeric fails exactly when no item's code is within tol of the
\* value, and otherwise returns the label of an item that is within tol
\* and as near to the value as any item within tol.
C14_DecodeReturnsNearestWithinTol ==
    cq.op = "from_numeric" =>
        LET near == {i \in 1..Len(cmap.mapping) :
                        Within(cmap.mapping[i].v, cq.value, cq.tol)}
        IN  /\ cq.res.raised <=> near = {}
            /\ ~cq.res.raised =>
                  \E i \in near :
                     /\ cmap.mapping[i].k = cq.res.label
                     /\ \A j \in near : RatLeq(Distance(i), Distance(j))

\* C15: to_numeric returns the mapping's code for a label of the mapping;
\* for any other label it raises when no default is given and returns
\* float(default) when one is given, a default of 0 included.
C15_EncodeKnownOrDefaultOrError ==
    cq.op = "to_numeric" =>
        IF \E i \in 1..Len(cmap.mapping) : cmap.mapping[i].k = cq.gesture
        THEN /\ ~cq.res.raised
             /\ \E i \in 1..Len(cmap.mapping) :
                   cmap.mapping[i].k = cq.gesture /\ cmap.mapping[i].v = cq.res.value
        ELSE IF cq.default = JNull
        THEN cq.res.raised
        ELSE ~cq.res.raised /\ cq.res.value = Rat(cq.default.n, 1)

\* An unknown label was encoded with the default 0 and gave 0.0.
C15_Witness ==
    /\ cq.op = "to_numeric"
    /\ cq.gesture = "PINCH"
    /\ \A i \in 1..Len(cmap.mapping) : cmap.mapping[i].k # "PINCH"
    /\ cq.default = JInt(0)
    /\ ~cq.res.raised
    /\ cq.res.value = Zero

\* A JSON value that is a number.
IsJsonNumber(v) == v.t \in {"int", "float", "nan"}

\* C16: load_map returns a mapping exactly when the document is a
\* non-empty object whose every value is a number, and fails otherwise; a
\* mapping it returns is not empty and holds the codes of numeric values.
C16_LoadMapAcceptsOnlyNumericObjects ==
    (cmap.pc \in {"loaded", "failed"} /\ cmap.source = "file") =>
        LET valid == /\ cmap.doc.is_object
                     /\ cmap.doc.members # <<>>
                     /\ \A i \in 1..Len(cmap.doc.members) : IsJsonNumber(cmap.doc.members[i].v)
        IN  /\ cmap.pc = "loaded" <=> valid
            /\ cmap.pc = "loaded" => cmap.mapping # <<>>

-----------------------------------------------------------------------------
(* Properties of the training pipeline *)

\* The steps of main in the order of its statements.
StepOrder ==
    << "makedirs", "load_csvs", "fit_scaler", "fit_model", "compute_threshold",
       "write_scaler", "write_threshold", "convert", "write_model", "write_report" >>

\* The state of the training state machine a step belongs to.
StateOf(name) ==
    CASE name = "makedirs"          -> "SETUP"
      [] name = "load_csvs"         -> "COLLECT"
      [] name = "fit_scaler"        -> "FIT_SCALER"
      [] name = "fit_model"         -> "FIT_MODEL"
      [] name = "compute_threshold" -> "COMPUTE_THRESHOLD"
      [] OTHER                      -> "EXPORT"

StateOrder ==
    << "SETUP", "COLLECT", "FIT_SCALER", "FIT_MODEL", "COMPUTE_THRESHOLD", "EXPORT" >>

Rank(state) == CHOOSE r \in 1..Len(StateOrder) : StateOrder[r] = state

Reached(state) == \E i \in 1..Len(tlog) : StateOf(tlog[i]) = state

\* Whether this run has written a file of the bundle.
WroteArtifact ==
    \/ outdir.scaler.run = tin.run
    \/ outdir.threshold.run = tin.run
    \/ outdir.model.run = tin.run
    \/ outdir.report.run = tin.run

\* No matched file has a row with a known label.
CorpusEmpty ==
    \A i \in 1..Len(tin.files) : \A j \in 1..Len(tin.files[i]) :
        ~IsRecognized(tin.files[i][j])

\* C17: a training run passes through COLLECT, FIT_SCALER, FIT_MODEL,
\* COMPUTE_THRESHOLD and EXPORT in that order, each at most once, and
\* writes no artifact before EXPORT; with a corpus that is empty after
\* filtering it fails in COLLECT and reaches no later state.
C17_TrainingStatesInOrder ==
    tpc # "off" =>
        /\ \A i, j \in 1..Len(tlog) :
              /\ i < j => Rank(StateOf(tlog[i])) <= Rank(StateOf(tlog[j]))
              /\ (i < j /\ StateOf(tlog[i]) # "EXPORT") => tlog[i] # tlog[j]
        /\ \A i \in 1..Len(tlog) :
              \A r \in 1..(Rank(StateOf(tlog[i])) - 1) : Reached(StateOrder[r])
        /\ WroteArtifact => (Reached("COMPUTE_THRESHOLD") /\ Reached("EXPORT"))
        /\ CorpusEmpty =>
              /\ \A i \in 1..Len(tlog) : Rank(StateOf(tlog[i])) <= Rank("COLLECT")
              /\ Reached("COLLECT") => (tpc = "failed" /\ tlog[Len(tlog)] = "load_csvs")
              /\ ~WroteArtifact
        /\ tpc = "done" => tlog = StepOrder

\* A run over two files, one without a recognized row, went through every
\* state and replaced an earlier bundle.
C17_Witness ==
    /\ tpc = "done"
    /\ Len(tin.files) = 2
    /\ \A j \in 1..Len(tin.files[1]) : ~IsRecognized(tin.files[1][j])
    /\ tin.files[1] # <<>>
    /\ tlog = StepOrder
    /\ outdir.scaler.run = ThisRun /\ outdir.model.run = ThisRun

\* C18: the threshold training writes is mean(mse) + k * std(mse) over the
\* corpus's own reconstruction errors, and it is greater than 0.
C18_WrittenThresholdPositive ==
    (tpc # "off" /\ outdir.threshold.run = tin.run) =>
        /\ outdir.threshold.value =
              RatAdd(NpMean(tloc.mse), RatMul(tin.k, NpStd(tloc.mse)))
        /\ RatLt(Zero, outdir.threshold.value)

\* C19: when training writes an artifact, the scaler's mean and scale, the
\* model's input and the model's output all have one width, and that
\* equality has been validated by a step of the run before the first
\* write.
C19_DimensionsValidatedBeforeExport ==
    (tpc # "off" /\ WroteArtifact) =>
        /\ Len(tloc.mean) = Len(tloc.std)
        /\ Len(tloc.std) = ModelWidth(tloc.model)
        /\ ModelWidth(tloc.model) = tloc.model.out
        /\ \E i \in 1..Len(tlog) :
              /\ tlog[i] = "validate_dimensions"
              /\ \A j \in 1..i : StateOf(tlog[j]) # "EXPORT" \/ j = i

\* C20: after a training run, completed or failed, the scaler and the
\* threshold in the output directory were written by the run that wrote
\* the model there (or none of the three is there).
C20_BundleReplacedAsUnit ==
    tpc \in {"done", "failed"} =>
        /\ outdir.scaler.run = outdir.model.run
        /\ outdir.threshold.run = outdir.model.run

-----------------------------------------------------------------------------
(* The service holds no state between lines *)

\* What a run of the service on the one line writes.
SoloResponse(line) == Written(<<>>, line)

\* What the run has written for the line at position p of its input: the
\* part of the output that follows the responses to the lines before it.
ResponseAt(p) ==
    LET before == Len(NonBlank(SubSeq(input, 1, p - 1)))
    IN  SubSeq(output, before + 1, before + Len(NonBlank(<<input[p]>>)))

\* C21: the response to a line is the same in every run that holds the
\* line, whatever was processed before it: at every position consumed the
\* run has written what a run on that line alone writes, so two equal
\* lines, in one run or in two, have equal responses.
C21_ResponseDependsOnLineOnly ==
    spc # "off" =>
        /\ Len(output) = Len(NonBlank(Consumed))
        /\ \A p \in 1..pos : ResponseAt(p) = SoloResponse(input[p])
        /\ \A p, q \in 1..pos : input[p] = input[q] => ResponseAt(p) = ResponseAt(q)

\* The same request object came first and again after a malformed line,
\* and got the same scored response both times.
C21_Witness ==
    /\ pos = 3
    /\ IsObject(input[1])
    /\ IsMalformed(input[2])
    /\ input[3] = input[1]
    /\ Len(output) = 3
    /\ output[1].ok
    /\ ~output[2].ok
    /\ output[3] = output[1]
    /\ ResponseAt(3) = <<output[1]>>

=============================================================================
